---- MODULE Spec2Model ----
(***************************************************************************)
(* A model of the lexer for .cton files (lib/reader/src/lexer.rs).         *)
(*                                                                         *)
(* A source text is a sequence of characters, each a one-character string. *)
(* Byte offsets are kept as the code keeps them: `pos` counts UTF-8 bytes, *)
(* `chars` is the position of the CharIndices iterator.                    *)
(***************************************************************************)
EXTENDS Integers, Sequences, FiniteSets, TLC

VARIABLES
    lex,       \* the Lexer: source, chars, lookahead, pos, line_number
    result,    \* what the last call returned
    start,     \* the number of characters in front of the item last returned
    op,        \* the last call: "new", "next", "rest_of_line", "split_entity_name"
    pre,       \* the Lexer as it was when the last call was made
    ntokens,   \* how many tokens and errors next() has returned so far
    hung,      \* a call did not return
    panicked,  \* an assertion failed
    name,      \* the argument of split_entity_name
    split      \* the value split_entity_name returned

vars == <<lex, result, start, op, pre, ntokens, hung, panicked, name, split>>

-----------------------------------------------------------------------------
(* Characters *)

NL == "\n"

None == "None"

Lower == {"a", "b", "c", "d", "e", "f", "g", "h", "i", "j", "k", "l", "m",
          "n", "o", "p", "q", "r", "s", "t", "u", "v", "w", "x", "y", "z"}

Upper == {"A", "B", "C", "D", "E", "F", "G", "H", "I", "J", "K", "L", "M",
          "N", "O", "P", "Q", "R", "S", "T", "U", "V", "W", "X", "Y", "Z"}

Digits == {"0", "1", "2", "3", "4", "5", "6", "7", "8", "9"}

\* A non-ASCII letter; it takes two bytes in UTF-8.
EAcute == "é"

NonAsciiAlpha == {EAcute}

WhiteSpace == {" ", "\t", "\r", NL}

DigitVal == [d \in Digits |->
               CASE d = "0" -> 0 [] d = "1" -> 1 [] d = "2" -> 2 [] d = "3" -> 3
                 [] d = "4" -> 4 [] d = "5" -> 5 [] d = "6" -> 6 [] d = "7" -> 7
                 [] d = "8" -> 8 [] d = "9" -> 9]

DigitChar == [v \in 0..9 |-> CHOOSE d \in Digits : DigitVal[d] = v]

is_digit(ch) == ch \in Digits

is_alphabetic(ch) == ch \in Lower \cup Upper \cup NonAsciiAlpha

is_alphanumeric(ch) == is_alphabetic(ch) \/ ch \in Digits

is_whitespace(ch) == ch \in WhiteSpace

\* Number of bytes of the UTF-8 encoding of a character.
len_utf8(ch) == IF ch \in NonAsciiAlpha THEN 2 ELSE 1

-----------------------------------------------------------------------------
(* Strings: byte offsets and slices *)

\* s.len(): the number of bytes of s.
ByteLen(s) == Len(s) + Cardinality({i \in 1..Len(s) : len_utf8(s[i]) = 2})

\* Byte offset of the character that follows the first k characters of s.
ByteOffset(s, k) == ByteLen(SubSeq(s, 1, k))

\* The number of characters of s that lie before byte offset b.
CharIndex(s, b) == CHOOSE k \in 0..Len(s) : ByteOffset(s, k) = b

\* &s[b..e]
Slice(s, b, e) == SubSeq(s, CharIndex(s, b) + 1, CharIndex(s, e))

starts_with(s, prefix) ==
    /\ Len(prefix) <= Len(s)
    /\ SubSeq(s, 1, Len(prefix)) = prefix

ends_with(s, ch) == s # <<>> /\ s[Len(s)] = ch

-----------------------------------------------------------------------------
(* Unsigned 32-bit numbers, kept as <<high 16 bits, low 16 bits>> *)

Half == 65536

U32Zero == <<0, 0>>

\* Option<T>: Nothing is None, Some(x) is <<x>>.
Nothing == <<>>

Some(x) == <<x>>

unwrap(o) == o[1]

\* n.checked_mul(10).and_then(|m| m.checked_add(d)), as u32::from_str does.
MulAdd10(n, d) ==
    LET lo == n[2] * 10 + d
        hi == n[1] * 10 + (lo \div Half)
    IN  IF hi >= Half THEN Nothing ELSE Some(<<hi, lo % Half>>)

RECURSIVE ParseFrom(_, _)
ParseFrom(n, digits) ==
    IF digits = <<>> THEN Some(n)
    ELSE LET m == MulAdd10(n, DigitVal[Head(digits)])
         IN  IF m = Nothing THEN Nothing ELSE ParseFrom(unwrap(m), Tail(digits))

\* str::parse::<u32>() on a string of decimal digits; Nothing for Err.
parse_u32(digits) == IF digits = <<>> THEN Nothing ELSE ParseFrom(U32Zero, digits)

U32Less(a, b) == a[1] < b[1] \/ (a[1] = b[1] /\ a[2] < b[2])

U32Leq(a, b) == a = b \/ U32Less(a, b)

\* u16::MAX as u32
U16Max == <<0, 65535>>

\* n / 10 and n % 10; used to state properties about numbers.
DivMod10(n) ==
    LET mid == (n[1] % 10) * Half + n[2]
    IN  [quot |-> <<n[1] \div 10, mid \div 10>>, rem |-> mid % 10]

\* Decimal rendering of a number.
RECURSIVE to_string(_)
to_string(n) ==
    LET qr == DivMod10(n)
    IN  IF qr.quot = U32Zero THEN <<DigitChar[qr.rem]>>
        ELSE Append(to_string(qr.quot), DigitChar[qr.rem])

-----------------------------------------------------------------------------
(* Tokens *)

Tok(kind, text, space, num, loc) ==
    [kind |-> kind, text |-> text, space |-> space, num |-> num, loc |-> loc]

\* Token::X without a location; token() adds it.
Bare(kind) == Tok(kind, <<>>, "-", U32Zero, 0)

BareText(kind, text) == Tok(kind, text, "-", U32Zero, 0)

BareNum(kind, space, num) == Tok(kind, <<>>, space, num, 0)

token(tok, loc) == [tok EXCEPT !.loc = loc]

error(err, loc) == Tok(err, <<>>, "-", U32Zero, loc)

NoToken == Bare(None)

-----------------------------------------------------------------------------
(* split_entity_name *)

RECURSIVE trailing_digits(_)
trailing_digits(s) ==
    IF s # <<>> /\ s[Len(s)] \in Digits
    THEN 1 + trailing_digits(SubSeq(s, 1, Len(s) - 1))
    ELSE 0

\* A split_entity_name that accepts a zero-padded tail.
split_entity_name_padded(nm) ==
    LET k    == Len(nm) - trailing_digits(nm)
        head == SubSeq(nm, 1, k)
        tail == SubSeq(nm, k + 1, Len(nm))
        n    == parse_u32(tail)
    IN  IF n = Nothing THEN Nothing
        ELSE Some([prefix |-> head, number |-> unwrap(n)])

split_entity_name(nm) ==
    LET k    == Len(nm) - trailing_digits(nm)
        head == SubSeq(nm, 1, k)
        tail == SubSeq(nm, k + 1, Len(nm))
    IN  IF Len(tail) > 1 /\ tail[1] = "0" THEN Nothing
        ELSE LET n == parse_u32(tail)
             IN  IF n = Nothing THEN Nothing
                 ELSE Some([prefix |-> head, number |-> unwrap(n)])

-----------------------------------------------------------------------------
(* Entities and types of cretonne::ir *)

\* u32::MAX / 2 and u32::MAX
U32HalfMax == <<32767, 65535>>

U32Max == <<65535, 65535>>

\* Value::direct_with_number, Value::table_with_number, Ebb::with_number:
\* Some(entity) when the number is representable in that numbering space.
direct_with_number(n) ==
    IF U32Less(n, U32HalfMax) THEN Some(BareNum("Value", "direct", n)) ELSE Nothing

table_with_number(n) ==
    IF U32Less(n, U32HalfMax) THEN Some(BareNum("Value", "table", n)) ELSE Nothing

ebb_with_number(n) ==
    IF U32Less(n, U32Max) THEN Some(BareNum("Ebb", "-", n)) ELSE Nothing

ScalarNames == { <<"i", "8">>, <<"i", "1", "6">>, <<"i", "3", "2">>, <<"i", "6", "4">>,
                 <<"f", "3", "2">>, <<"f", "6", "4">>,
                 <<"b", "1">>, <<"b", "8">>, <<"b", "1", "6">>, <<"b", "3", "2">>,
                 <<"b", "6", "4">> }

\* The largest lane count of a vector type.
MaxLanes == 256

IsPowerOfTwo(k) == k \in {1, 2, 4, 8, 16, 32, 64, 128, 256}

\* Type::by(lanes) on a scalar type: the vector type, when it can be built.
by(base, lanes) ==
    IF lanes <= MaxLanes /\ IsPowerOfTwo(lanes)
    THEN Some(Tok("Type", base, "-", <<0, lanes>>, 0))
    ELSE Nothing

\* A scalar type such as types::I32: one lane.
ScalarType(base) == Tok("Type", base, "-", <<0, 1>>, 0)

-----------------------------------------------------------------------------
(* Lexer *)

\* What a call of a scanning function leaves behind: the lexer, the value it
\* returned, whether it failed an assertion and whether it never returned.
\* `start` is the number of characters before the first character of the
\* returned item.
Ret(l, ret, before) ==
    [lex |-> l, ret |-> ret, start |-> before, panic |-> FALSE, hang |-> FALSE]

\* A next_ch that counts the line when it fetches the newline.
next_ch_eager(l) ==
    IF l.chars < Len(l.source)
    THEN [l EXCEPT !.chars = l.chars + 1,
                   !.pos = ByteOffset(l.source, l.chars),
                   !.lookahead = l.source[l.chars + 1],
                   !.line_number = IF l.source[l.chars + 1] = NL
                                   THEN l.line_number + 1 ELSE l.line_number]
    ELSE [l EXCEPT !.pos = ByteLen(l.source), !.lookahead = None]

\* A next_ch that also counts a line when it is called at the end of input.
next_ch_eof_line(l) ==
    LET ln == IF l.lookahead = NL \/ (l.lookahead = None /\ l.chars > 0)
              THEN l.line_number + 1 ELSE l.line_number
    IN  IF l.chars < Len(l.source)
        THEN [l EXCEPT !.chars = l.chars + 1,
                       !.pos = ByteOffset(l.source, l.chars),
                       !.lookahead = l.source[l.chars + 1],
                       !.line_number = ln]
        ELSE [l EXCEPT !.pos = ByteLen(l.source),
                       !.lookahead = None,
                       !.line_number = ln]

\* A next_ch that counts a line for every whitespace character it leaves.
next_ch_whitespace(l) ==
    LET ln == IF is_whitespace(l.lookahead) THEN l.line_number + 1 ELSE l.line_number
    IN  IF l.chars < Len(l.source)
        THEN [l EXCEPT !.chars = l.chars + 1,
                       !.pos = ByteOffset(l.source, l.chars),
                       !.lookahead = l.source[l.chars + 1],
                       !.line_number = ln]
        ELSE [l EXCEPT !.pos = ByteLen(l.source),
                       !.lookahead = None,
                       !.line_number = ln]

next_ch(l) ==
    LET ln == IF l.lookahead = NL THEN l.line_number + 1 ELSE l.line_number
    IN  IF l.chars < Len(l.source)
        THEN [l EXCEPT !.chars = l.chars + 1,
                       !.pos = ByteOffset(l.source, l.chars),
                       !.lookahead = l.source[l.chars + 1],
                       !.line_number = ln]
        ELSE [l EXCEPT !.pos = ByteLen(l.source),
                       !.lookahead = None,
                       !.line_number = ln]

new(s) ==
    next_ch([source |-> s, chars |-> 0, lookahead |-> None, pos |-> 0,
             line_number |-> 1])

loc(l) == l.line_number

\* A looking_at that compares the first character only.
looking_at_first(l, prefix) == l.lookahead = prefix[1]

looking_at(l, prefix) ==
    starts_with(Slice(l.source, l.pos, ByteLen(l.source)), prefix)

\* The number of characters in front of the lookahead.
Before(l) == CharIndex(l.source, l.pos)

\* A scan_char that advances twice.
scan_char_twice(l, tok) ==
    [Ret(next_ch(next_ch(l)), token(tok, loc(l)), Before(l))
        EXCEPT !.panic = (l.lookahead = None)]

scan_char(l, tok) ==
    [Ret(next_ch(l), token(tok, loc(l)), Before(l))
        EXCEPT !.panic = (l.lookahead = None)]

RECURSIVE scan_chars_loop(_, _)
scan_chars_loop(l, count) ==
    IF count = 0 THEN [lex |-> l, panic |-> FALSE]
    ELSE IF l.lookahead = None THEN [lex |-> l, panic |-> TRUE]
    ELSE scan_chars_loop(next_ch(l), count - 1)

\* A scan_chars that advances once, whatever the count.
scan_chars_once(l, count, tok) ==
    LET r == scan_chars_loop(l, 1)
    IN  [Ret(r.lex, token(tok, loc(l)), Before(l)) EXCEPT !.panic = r.panic]

scan_chars(l, count, tok) ==
    LET r == scan_chars_loop(l, count)
    IN  [Ret(r.lex, token(tok, loc(l)), Before(l)) EXCEPT !.panic = r.panic]

RECURSIVE rest_of_line_loop(_)
rest_of_line_loop(l) ==
    LET l1 == next_ch(l)
    IN  IF l1.lookahead \in {None, NL} THEN l1 ELSE rest_of_line_loop(l1)

\* A rest_of_line that advances by one character only.
rest_of_line_one(l) ==
    LET begin == l.pos
        l1    == next_ch(l)
    IN  Ret(l1, BareText("Text", Slice(l.source, begin, l1.pos)), Before(l))

rest_of_line(l) ==
    LET begin == l.pos
        l1    == rest_of_line_loop(l)
    IN  Ret(l1, BareText("Text", Slice(l.source, begin, l1.pos)), Before(l))

\* A scan_comment that leaves the `;` out of the text.
scan_comment_no_marker(l) ==
    LET r == rest_of_line(l)
    IN  Ret(r.lex, token(BareText("Comment", Tail(r.ret.text)), loc(l)), Before(l))

scan_comment(l) ==
    LET r == rest_of_line(l)
    IN  Ret(r.lex, token(BareText("Comment", r.ret.text), loc(l)), Before(l))

\* while self.next_ch() != Some(':') {} : once the iterator is exhausted
\* next_ch() keeps returning None, so the loop never ends.
RECURSIVE skip_to_colon(_)
skip_to_colon(l) ==
    LET l1 == next_ch(l)
    IN  IF l1.lookahead = ":" THEN [lex |-> l1, hang |-> FALSE]
        ELSE IF l1.lookahead = None THEN [lex |-> l1, hang |-> TRUE]
        ELSE skip_to_colon(l1)

\* The loop that looks for the end of a number.
RECURSIVE number_loop(_, _)
number_loop(l, is_float) ==
    LET l1 == next_ch(l)
        ch == l1.lookahead
    IN  IF ch \in {"-", "_"} THEN number_loop(l1, is_float)
        ELSE IF ch = "." THEN number_loop(l1, TRUE)
        ELSE IF is_alphanumeric(ch) THEN number_loop(l1, is_float)
        ELSE [lex |-> l1, is_float |-> is_float]

\* A payload test that forgets the colon.
NaNColon_NoColon == <<"N", "a", "N">>

NaNColon == <<"N", "a", "N", ":">>

SNaNColon == <<"s", "N", "a", "N", ":">>

NaN == <<"N", "a", "N">>

Inf == <<"I", "n", "f">>

scan_number(l) ==
    LET begin   == l.pos
        l1      == IF l.lookahead = "-" THEN next_ch(l) ELSE l
        payload == looking_at(l1, NaNColon) \/ looking_at(l1, SNaNColon)
        skipped == IF payload THEN skip_to_colon(l1) ELSE [lex |-> l1, hang |-> FALSE]
        special == payload \/ looking_at(l1, NaN) \/ looking_at(l1, Inf)
        r       == number_loop(skipped.lex, special)
        text    == Slice(l.source, begin, r.lex.pos)
    IN  IF skipped.hang
        THEN [Ret(skipped.lex, NoToken, Before(l)) EXCEPT !.hang = TRUE]
        ELSE Ret(r.lex,
                 token(BareText(IF r.is_float THEN "Float" ELSE "Integer", text), loc(l)),
                 Before(l))

\* A numbered_entity that takes `sig` for a stack slot and does not know `ss`.
numbered_entity_swapped(prefix, number) ==
    CASE prefix = <<"v">>           -> direct_with_number(number)
      [] prefix = <<"v", "x">>      -> table_with_number(number)
      [] prefix = <<"e", "b", "b">> -> ebb_with_number(number)
      [] prefix = <<"s", "i", "g">> -> Some(BareNum("StackSlot", "-", number))
      [] prefix = <<"j", "t">>      -> Some(BareNum("JumpTable", "-", number))
      [] prefix = <<"f", "n">>      -> Some(BareNum("FuncRef", "-", number))
      [] OTHER                      -> Nothing

numbered_entity(prefix, number) ==
    CASE prefix = <<"v">>           -> direct_with_number(number)
      [] prefix = <<"v", "x">>      -> table_with_number(number)
      [] prefix = <<"e", "b", "b">> -> ebb_with_number(number)
      [] prefix = <<"s", "s">>      -> Some(BareNum("StackSlot", "-", number))
      [] prefix = <<"j", "t">>      -> Some(BareNum("JumpTable", "-", number))
      [] prefix = <<"f", "n">>      -> Some(BareNum("FuncRef", "-", number))
      [] prefix = <<"s", "i", "g">> -> Some(BareNum("SigRef", "-", number))
      [] OTHER                      -> Nothing

\* A value_type that casts the lane count to 16 bits without the range test.
value_type_truncating(text, prefix, number) ==
    LET is_vector == ends_with(prefix, "x")
        scalar    == IF is_vector THEN SubSeq(prefix, 1, Len(prefix) - 1) ELSE text
    IN  IF scalar \notin ScalarNames THEN Nothing
        ELSE IF is_vector THEN by(scalar, number[2])
             ELSE Some(ScalarType(scalar))

value_type(text, prefix, number) ==
    LET is_vector == ends_with(prefix, "x")
        scalar    == IF is_vector THEN SubSeq(prefix, 1, Len(prefix) - 1) ELSE text
    IN  IF scalar \notin ScalarNames THEN Nothing
        ELSE IF is_vector
             THEN IF U32Leq(number, U16Max) THEN by(scalar, number[2]) ELSE Nothing
             ELSE Some(ScalarType(scalar))

RECURSIVE word_loop(_)
word_loop(l) ==
    LET l1 == next_ch(l)
        ch == l1.lookahead
    IN  IF ch = "_" \/ is_alphanumeric(ch) THEN word_loop(l1) ELSE l1

\* The token a word stands for.
word_token(text) ==
    LET sp == split_entity_name(text)
    IN  IF sp = Nothing THEN BareText("Identifier", text)
        ELSE LET e == numbered_entity(unwrap(sp).prefix, unwrap(sp).number)
                 t == IF e # Nothing THEN e
                      ELSE value_type(text, unwrap(sp).prefix, unwrap(sp).number)
             IN  IF t = Nothing THEN BareText("Identifier", text) ELSE unwrap(t)

scan_word(l) ==
    LET begin == l.pos
        l1    == word_loop(l)
        text  == Slice(l.source, begin, l1.pos)
    IN  IF ~(l.lookahead = "_" \/ is_alphabetic(l.lookahead))
        THEN [Ret(l, NoToken, Before(l)) EXCEPT !.panic = TRUE]
        ELSE Ret(l1, token(word_token(text), loc(l)), Before(l))

\* The single-character tokens without `=`.
Punctuation_NoEqual ==
    [ch \in {"(", ")", "{", "}", ",", ".", ":"} |->
        CASE ch = "(" -> "LPar"   [] ch = ")" -> "RPar"
          [] ch = "{" -> "LBrace" [] ch = "}" -> "RBrace"
          [] ch = "," -> "Comma"  [] ch = "." -> "Dot"
          [] ch = ":" -> "Colon"]

Punctuation ==
    [ch \in {"(", ")", "{", "}", ",", ".", ":", "="} |->
        CASE ch = "(" -> "LPar"   [] ch = ")" -> "RPar"
          [] ch = "{" -> "LBrace" [] ch = "}" -> "RBrace"
          [] ch = "," -> "Comma"  [] ch = "." -> "Dot"
          [] ch = ":" -> "Colon"  [] ch = "=" -> "Equal"]

\* An error arm that does not skip the invalid character.
invalid_char_stay(l) == Ret(l, error("InvalidChar", loc(l)), Before(l))

\* An error arm that also drops the character after the invalid one.
invalid_char_skip2(l) ==
    Ret(next_ch(next_ch(l)), error("InvalidChar", loc(l)), Before(l))

\* The last arm of the match in next(): skip the invalid char, return the error.
invalid_char(l) == Ret(next_ch(l), error("InvalidChar", loc(l)), Before(l))

RECURSIVE next(_)
next(l) ==
    LET ch == l.lookahead
    IN  IF ch = None THEN Ret(l, NoToken, Before(l))
        ELSE IF ch = ";" THEN scan_comment(l)
        ELSE IF ch \in DOMAIN Punctuation THEN scan_char(l, Bare(Punctuation[ch]))
        ELSE IF ch = "-"
             THEN IF looking_at(l, <<"-", ">">>)
                  THEN scan_chars(l, 2, Bare("Arrow"))
                  ELSE scan_number(l)
        ELSE IF is_digit(ch) THEN scan_number(l)
        ELSE IF is_alphabetic(ch) THEN scan_word(l)
        ELSE IF is_whitespace(ch) THEN next(next_ch(l))
        ELSE invalid_char(l)

-----------------------------------------------------------------------------
(* Inputs *)

\* The longest source text and the longest name that are enumerated.
MaxLen == 3

MaxNameLen == 3

Alphabet == {"-", ">", ".", ":", "_", "0", "1", "x", " ", NL, "#", ";", "("}

NameAlphabet == {"0", "1", "9", "x", "+"}

Strings(A, n) == UNION {[1..k -> A] : k \in 0..n}

\* Texts of the unit tests and texts with long words and literals.
Examples == {
    \* ; hello
    <<";", " ", "h", "e", "l", "l", "o">>,
    \* \n  ;hello\n;foo
    <<NL, " ", " ", ";", "h", "e", "l", "l", "o", NL, ";", "f", "o", "o">>,
    \* #; hello
    <<"#", ";", " ", "h", "e", "l", "l", "o">>,
    \* (); hello\n = :{, }.
    <<"(", ")", ";", " ", "h", "e", "l", "l", "o", NL, " ", "=", " ", ":", "{", ",", " ", "}", ".">>,
    \*  0 2_000 -1,0xf
    <<" ", "0", " ", "2", "_", "0", "0", "0", " ", "-", "1", ",", "0", "x", "f">>,
    \*  -0x0 0.0 0x0.4p-34
    <<" ", "-", "0", "x", "0", " ", "0", ".", "0", " ", "0", "x", "0", ".", "4", "p", "-", "3", "4">>,
    \* v0 v00 vx01
    <<"v", "0", " ", "v", "0", "0", " ", "v", "x", "0", "1">>,
    \* ebb1234567890 v1x
    <<"e", "b", "b", "1", "2", "3", "4", "5", "6", "7", "8", "9", "0", " ", "v", "1", "x">>,
    \* ebb5234567890 vx1
    <<"e", "b", "b", "5", "2", "3", "4", "5", "6", "7", "8", "9", "0", " ", "v", "x", "1">>,
    \* vxvx4 function0
    <<"v", "x", "v", "x", "4", " ", "f", "u", "n", "c", "t", "i", "o", "n", "0">>,
    \* function b1
    <<"f", "u", "n", "c", "t", "i", "o", "n", " ", "b", "1">>,
    \* i32x4 f32x5
    <<"i", "3", "2", "x", "4", " ", "f", "3", "2", "x", "5">>,
    \* -NaN:0x1 -sNaN:f
    <<"-", "N", "a", "N", ":", "0", "x", "1", " ", "-", "s", "N", "a", "N", ":", "f">>,
    \* NaN
    <<"N", "a", "N">>,
    \* sNaN
    <<"s", "N", "a", "N">>,
    \* Inf
    <<"I", "n", "f">>,
    \* -NaN
    <<"-", "N", "a", "N">>,
    \* -sNaN
    <<"-", "s", "N", "a", "N">>,
    \* -Inf
    <<"-", "I", "n", "f">>,
    \* NaN:1
    <<"N", "a", "N", ":", "1">>,
    \* sNaN:1 x
    <<"s", "N", "a", "N", ":", "1", " ", "x">>,
    \* -Inf.
    <<"-", "I", "n", "f", ".">>,
    \* _a1 x
    <<"_", "a", "1", " ", "x">>,
    \* x_1
    <<"x", "_", "1">>,
    \* a\nb\n\nc
    <<"a", NL, "b", NL, NL, "c">>,
    \* é1 x_é
    <<EAcute, "1", " ", "x", "_", EAcute>>,
    \* -(
    <<"-", "(">>,
    \* -.5
    <<"-", ".", "5">>,
    \* - 1
    <<"-", " ", "1">>,
    \* -\n#
    <<"-", NL, "#">>,
    \* -#
    <<"-", "#">>,
    \* ss4294967295
    <<"s", "s", "4", "2", "9", "4", "9", "6", "7", "2", "9", "5">>,
    \* ss4294967296
    <<"s", "s", "4", "2", "9", "4", "9", "6", "7", "2", "9", "6">>,
    \* jt0 fn1 sig2 ss3
    <<"j", "t", "0", " ", "f", "n", "1", " ", "s", "i", "g", "2", " ", "s", "s", "3">>,
    \* v2147483646
    <<"v", "2", "1", "4", "7", "4", "8", "3", "6", "4", "6">>,
    \* v2147483647
    <<"v", "2", "1", "4", "7", "4", "8", "3", "6", "4", "7">>,
    \* vx2147483646
    <<"v", "x", "2", "1", "4", "7", "4", "8", "3", "6", "4", "6">>,
    \* vx2147483647
    <<"v", "x", "2", "1", "4", "7", "4", "8", "3", "6", "4", "7">>,
    \* ebb4294967294
    <<"e", "b", "b", "4", "2", "9", "4", "9", "6", "7", "2", "9", "4">>,
    \* ebb4294967295
    <<"e", "b", "b", "4", "2", "9", "4", "9", "6", "7", "2", "9", "5">>,
    \* i8x256 i8x512
    <<"i", "8", "x", "2", "5", "6", " ", "i", "8", "x", "5", "1", "2">>,
    \* i8x65536
    <<"i", "8", "x", "6", "5", "5", "3", "6">>,
    \* i16 i64 f64 b8 b16x2
    <<"i", "1", "6", " ", "i", "6", "4", " ", "f", "6", "4", " ", "b", "8", " ", "b", "1", "6", "x", "2">>,
    \* x->y
    <<"x", "-", ">", "y">> }

ExampleNames == {
    \* 
    <<>>,
    \* x
    <<"x">>,
    \* x+
    <<"x", "+">>,
    \* x+1
    <<"x", "+", "1">>,
    \* x-1
    <<"x", "-", "1">>,
    \* 1
    <<"1">>,
    \* x1
    <<"x", "1">>,
    \* xy0
    <<"x", "y", "0">>,
    \* inst01
    <<"i", "n", "s", "t", "0", "1">>,
    \* inst0
    <<"i", "n", "s", "t", "0">>,
    \* ebb4294967295
    <<"e", "b", "b", "4", "2", "9", "4", "9", "6", "7", "2", "9", "5">>,
    \* ebb4294967296
    <<"e", "b", "b", "4", "2", "9", "4", "9", "6", "7", "2", "9", "6">>,
    \* ebb5234567890
    <<"e", "b", "b", "5", "2", "3", "4", "5", "6", "7", "8", "9", "0">>,
    \* 0
    <<"0">>,
    \* 00
    <<"0", "0">>,
    \* x10
    <<"x", "1", "0">>,
    \* é7
    <<EAcute, "7">>,
    \* v42949672950
    <<"v", "4", "2", "9", "4", "9", "6", "7", "2", "9", "5", "0">> }

\* The longest number of an enumerated entity word.
MaxDigits == 2

WordPrefixes == {
    <<"v">>,
    <<"v", "x">>,
    <<"e", "b", "b">>,
    <<"s", "s">>,
    <<"j", "t">>,
    <<"f", "n">>,
    <<"s", "i", "g">>,
    <<"s">>,
    <<"s", "i", "g", "x">>,
    <<"i", "3", "2", "x">>,
    <<"i", "8", "x">>,
    <<"b", "1", "x">>,
    <<"x">>,
    <<"f", "3", "2">>,
    <<"i">> }

WordNumbers == Strings({"0", "1", "2", "4", "8"}, MaxDigits) \cup {
    <<"2", "5", "6">>,
    <<"6", "5", "5", "3", "5">>,
    <<"6", "5", "5", "3", "6">>,
    <<"2", "1", "4", "7", "4", "8", "3", "6", "4", "6">>,
    <<"2", "1", "4", "7", "4", "8", "3", "6", "4", "7">>,
    <<"4", "2", "9", "4", "9", "6", "7", "2", "9", "4">>,
    <<"4", "2", "9", "4", "9", "6", "7", "2", "9", "5">>,
    <<"4", "2", "9", "4", "9", "6", "7", "2", "9", "6">>,
    <<"1", "6">>,
    <<"6", "4">>,
    <<"6", "5", "5", "5", "2">> }

\* Words made of a prefix and a number, such as vx12 and i32x4.
EntityWords == {w \o n : w \in WordPrefixes, n \in WordNumbers}

Sources == Strings(Alphabet, MaxLen) \cup Examples \cup EntityWords

Names == Strings(NameAlphabet, MaxNameLen) \cup ExampleNames

-----------------------------------------------------------------------------
(* The lexer driven by its caller *)

Init ==
    /\ \E s \in Sources : lex = new(s)
    /\ result = Bare("Start")
    /\ start = 0
    /\ op = "new"
    /\ pre = lex
    /\ ntokens = 0
    /\ hung = FALSE
    /\ panicked = FALSE
    /\ name = <<>>
    /\ split = Nothing

\* A call of Lexer::next.
Next_ ==
    /\ ~hung /\ ~panicked
    /\ LET r == next(lex)
       IN  /\ lex' = r.lex
           /\ result' = r.ret
           /\ start' = r.start
           /\ hung' = r.hang
           /\ panicked' = r.panic
           /\ ntokens' = IF r.ret.kind = None THEN ntokens ELSE ntokens + 1
    /\ op' = "next"
    /\ pre' = lex
    /\ UNCHANGED <<name, split>>

\* A call of Lexer::rest_of_line.
RestOfLine ==
    /\ ~hung /\ ~panicked
    /\ LET r == rest_of_line(lex)
       IN  /\ lex' = r.lex
           /\ result' = r.ret
           /\ start' = r.start
    /\ op' = "rest_of_line"
    /\ pre' = lex
    /\ UNCHANGED <<ntokens, hung, panicked, name, split>>

Next == Next_ \/ RestOfLine

Spec == Init /\ [][Next]_vars

-----------------------------------------------------------------------------
(* split_entity_name called on its own *)

InitSplit ==
    /\ name \in Names
    /\ split = Nothing
    /\ op = "new"
    /\ lex = new(<<>>)
    /\ pre = lex
    /\ result = Bare("Start")
    /\ start = 0
    /\ ntokens = 0
    /\ hung = FALSE
    /\ panicked = FALSE

SplitEntityName ==
    /\ op = "new"
    /\ split' = split_entity_name(name)
    /\ op' = "split_entity_name"
    /\ UNCHANGED <<lex, pre, result, start, ntokens, hung, panicked, name>>

NextSplit == SplitEntityName

SpecSplit == InitSplit /\ [][NextSplit]_vars

-----------------------------------------------------------------------------
(* Properties *)

Source == lex.source

\* The number of newlines among the first k characters of s.
NewlinesBefore(s, k) == Cardinality({i \in 1..k : s[i] = NL})

\* next() has just returned a token or an error.
Returned == op = "next" /\ ~hung /\ ~panicked /\ result.kind # None

\* C1: every call of next() returns, next() returns at most one token or
\* error per character of the source before it returns None, and when it
\* returns None the cursor offset is the length of the source.
C1_NextReachesEnd ==
    /\ ~hung
    /\ ntokens <= Len(Source)
    /\ (op = "next" /\ result.kind = None =>
            /\ lex.pos = ByteLen(Source)
            /\ lex.lookahead = None)

\* `-NaN:0x1 -sNaN:f`: two payload NaNs were scanned, then None came.
C1_Witness ==
    /\ op = "next" /\ result.kind = None
    /\ ntokens = 2
    /\ starts_with(Source, <<"-">> \o NaNColon)
    /\ lex.pos = ByteLen(Source)

\* C2: a token or error returned by next() carries the line number
\* 1 + the number of newlines in front of its first character.
C2_LineOfToken ==
    Returned => result.loc = 1 + NewlinesBefore(Source, start)

\* A token on the fourth line, after a blank line.
C2_Witness ==
    /\ Returned /\ result.loc = 4
    /\ Source[start] = NL /\ Source[start - 1] = NL

\* The tokens and errors that next() returns from l on, up to None.
RECURSIVE TokensFrom(_)
TokensFrom(l) ==
    LET r == next(l)
    IN  IF r.hang \/ r.panic THEN <<"stuck">>
        ELSE IF r.ret.kind = None THEN <<>>
        ELSE <<r.ret>> \o TokensFrom(r.lex)

ShiftLines(toks, k) == [i \in 1..Len(toks) |-> [toks[i] EXCEPT !.loc = @ + k]]

\* C3: when next() returns InvalidChar, the cursor is on the character right
\* after the offending one, the error has the line of the offending
\* character, and the calls that follow return the tokens of the text that
\* starts right after it.
C3_InvalidCharConsumesOne ==
    (Returned /\ result.kind = "InvalidChar") =>
        /\ lex.pos = ByteOffset(Source, start + 1)
        /\ lex.lookahead = IF start + 1 < Len(Source) THEN Source[start + 2] ELSE None
        /\ result.loc = 1 + NewlinesBefore(Source, start)
        /\ lex.line_number = result.loc
        /\ TokensFrom(lex) =
             ShiftLines(TokensFrom(new(SubSeq(Source, start + 2, Len(Source)))),
                        result.loc - 1)

\* `#; hello`: the error, with the comment to come.
C3_Witness ==
    /\ Returned /\ result.kind = "InvalidChar"
    /\ next(lex).ret.kind = "Comment"
    /\ next(lex).ret.text = SubSeq(Source, start + 2, Len(Source))

\* The text from character k + 1 of s up to the next newline or the end.
RECURSIVE LineFrom(_, _)
LineFrom(s, k) ==
    IF k >= Len(s) \/ s[k + 1] = NL THEN <<>>
    ELSE <<s[k + 1]>> \o LineFrom(s, k + 1)

\* C4: rest_of_line() returns the text from the cursor up to, and excluding,
\* the first newline at or after the cursor (or the end of input), so the
\* text it returns has no newline in it.
C4_RestOfLineStopsAtNewline ==
    op = "rest_of_line" =>
        /\ result.text = LineFrom(Source, Before(pre))
        /\ \A i \in 1..Len(result.text) : result.text[i] # NL

NumberChars == {"-", "_", "."} \cup {ch \in Alphabet \cup Lower \cup Upper \cup Digits
                                         \cup NonAsciiAlpha : is_alphanumeric(ch)}

\* The characters of s from k + 1 on that belong to the set cs, up to the
\* first one that does not.
RECURSIVE RunFrom(_, _, _)
RunFrom(s, k, cs) ==
    IF k >= Len(s) \/ s[k + 1] \notin cs THEN <<>>
    ELSE <<s[k + 1]>> \o RunFrom(s, k + 1, cs)

\* C5: an Integer or Float token holds only `-`, `_`, `.` and alphanumeric
\* characters, apart from the `:` of a NaN: or sNaN: prefix; the first other
\* character ends the token and is left as the lookahead.
C5_NumberStopsAtOtherChar ==
    (Returned /\ result.kind \in {"Integer", "Float"}) =>
        LET sign == IF Source[start + 1] = "-" THEN 1 ELSE 0
            body == SubSeq(Source, start + 1 + sign, Len(Source))
            skip == IF starts_with(body, NaNColon) THEN Len(NaNColon)
                    ELSE IF starts_with(body, SNaNColon) THEN Len(SNaNColon)
                    ELSE 0
        IN  /\ result.text = SubSeq(Source, start + 1, start + sign + skip)
                             \o RunFrom(Source, start + sign + skip, NumberChars)
            /\ lex.lookahead \notin NumberChars

\* C6: no Integer token has a `.` in its text.
C6_IntegerHasNoRadixPoint ==
    (Returned /\ result.kind = "Integer") =>
        \A i \in 1..Len(result.text) : result.text[i] # "."

WordChars == {"_"} \cup (NumberChars \ {"-", "."})

SNaN == <<"s", "N", "a", "N">>

\* C7: a literal that is an optional `-` followed by NaN, sNaN or Inf, alone
\* or (for NaN and sNaN) with a `:` and a payload, comes back as one Float
\* token that holds the literal.
C7_SpecialFloatKeywords ==
    Returned =>
        LET sign == IF Source[start + 1] = "-" THEN 1 ELSE 0
            word == RunFrom(Source, start + sign, WordChars)
            after == start + sign + Len(word)
            colon == after < Len(Source) /\ Source[after + 1] = ":"
                     /\ word \in {NaN, SNaN}
            lit  == SubSeq(Source, start + 1, after)
                    \o (IF colon THEN <<":">> \o RunFrom(Source, after + 1, NumberChars)
                        ELSE <<>>)
        IN  word \in {NaN, SNaN, Inf} =>
                result.kind = "Float" /\ result.text = lit

\* C8: a word that starts with `_` is scanned as one word token; it gives no
\* InvalidChar error.
C8_UnderscoreStartsWord ==
    (Returned /\ Source[start + 1] = "_") =>
        /\ result.kind # "InvalidChar"
        /\ Before(lex) = start + Len(RunFrom(Source, start, WordChars))

\* The longest run of decimal digits at the end of s.
DigitRun(s) ==
    LET k == CHOOSE k \in 0..Len(s) :
                 /\ \A i \in (Len(s) - k + 1)..Len(s) : s[i] \in Digits
                 /\ (k < Len(s) => s[Len(s) - k] \notin Digits)
    IN  SubSeq(s, Len(s) - k + 1, Len(s))

WithoutDigitRun(s) == SubSeq(s, 1, Len(s) - Len(DigitRun(s)))

ZeroPadded(run) == Len(run) > 1 /\ run[1] = "0"

\* 2^32 - 1 in decimal.
U32MaxDecimal == <<"4", "2", "9", "4", "9", "6", "7", "2", "9", "5">>

\* d <= e for two decimal numerals of the same length.
DecimalLeq(d, e) ==
    \/ d = e
    \/ \E i \in 1..Len(d) :
          /\ DigitVal[d[i]] < DigitVal[e[i]]
          /\ \A j \in 1..(i - 1) : d[j] = e[j]

\* The value of a numeral that is not zero-padded fits in 32 bits.
FitsU32(run) ==
    \/ Len(run) < Len(U32MaxDecimal)
    \/ Len(run) = Len(U32MaxDecimal) /\ DecimalLeq(run, U32MaxDecimal)

Splits(s) == DigitRun(s) # <<>> /\ ~ZeroPadded(DigitRun(s)) /\ FitsU32(DigitRun(s))

\* C9: split_entity_name(name) is Some((prefix, n)) exactly when the run of
\* digits at the end of name is not empty, is not zero-padded and fits in 32
\* bits; then prefix is name without the run, n is the value of the run, and
\* prefix followed by n in decimal is name.
C9_SplitEntityName ==
    op = "split_entity_name" =>
        /\ split # Nothing <=> Splits(name)
        /\ split # Nothing =>
              /\ unwrap(split).prefix = WithoutDigitRun(name)
              /\ to_string(unwrap(split).number) = DigitRun(name)
              /\ unwrap(split).prefix \o to_string(unwrap(split).number) = name

\* `ebb4294967295`: the largest number is split off.
C9_Witness ==
    /\ op = "split_entity_name"
    /\ split = Some([prefix |-> <<"e", "b", "b">>, number |-> U32Max])
    /\ DigitRun(name) = U32MaxDecimal

Sigil == [p \in {<<"s", "s">>, <<"j", "t">>, <<"f", "n">>, <<"s", "i", "g">>} |->
            CASE p = <<"s", "s">> -> "StackSlot" [] p = <<"j", "t">> -> "JumpTable"
              [] p = <<"f", "n">> -> "FuncRef"   [] p = <<"s", "i", "g">> -> "SigRef"]

\* The entity a prefix with a range stands for, when n is in its range.
Ranged(p, n) ==
    CASE p = <<"v">>           -> direct_with_number(n)
      [] p = <<"v", "x">>      -> table_with_number(n)
      [] p = <<"e", "b", "b">> -> ebb_with_number(n)

RangedPrefixes == {<<"v">>, <<"v", "x">>, <<"e", "b", "b">>}

\* The word is a scalar type name, or a scalar type name, `x` and a number.
TypePattern(word) ==
    \/ word \in ScalarNames
    \/ /\ ends_with(WithoutDigitRun(word), "x")
       /\ SubSeq(word, 1, Len(WithoutDigitRun(word)) - 1) \in ScalarNames

\* C10: a word with prefix ss, jt, fn or sig and a number is the stack slot,
\* jump table, function or signature of that number; with prefix v, vx or
\* ebb and a number in range it is that value or block; a word with a
\* zero-padded number, a number out of range or a prefix that is neither a
\* sigil nor a type pattern is an Identifier that holds the whole word.
C10_NumberedEntities ==
    (Returned /\ is_alphabetic(Source[start + 1])) =>
        LET word == RunFrom(Source, start, WordChars)
            p    == WithoutDigitRun(word)
            run  == DigitRun(word)
            id   == token(BareText("Identifier", word), result.loc)
        IN  IF Splits(word)
            THEN LET n == unwrap(parse_u32(run))
                 IN  /\ p \in DOMAIN Sigil =>
                            /\ result = token(BareNum(Sigil[p], "-", n), result.loc)
                            /\ to_string(result.num) = run
                     /\ (p \in RangedPrefixes /\ Ranged(p, n) # Nothing) =>
                            /\ result = token(unwrap(Ranged(p, n)), result.loc)
                            /\ to_string(result.num) = run
                     /\ (p \in RangedPrefixes /\ Ranged(p, n) = Nothing) => result = id
                     /\ (p \notin DOMAIN Sigil \cup RangedPrefixes /\ ~TypePattern(word)) =>
                            result = id
            ELSE (run # <<>> \/ ~TypePattern(word)) => result = id

\* `ss4294967295`: the stack slot with the largest number.
C10_Witness ==
    /\ Returned /\ result.kind = "StackSlot" /\ result.num = U32Max
    /\ RunFrom(Source, start, WordChars) = <<"s", "s">> \o U32MaxDecimal

\* The value of a numeral of at most five digits.
RECURSIVE DecimalValue(_)
DecimalValue(run) ==
    IF run = <<>> THEN 0
    ELSE 10 * DecimalValue(SubSeq(run, 1, Len(run) - 1)) + DigitVal[run[Len(run)]]

U16MaxDecimal == <<"6", "5", "5", "3", "5">>

\* The numeral is not zero-padded and its value is at most 65535.
LaneCount(run) ==
    /\ run # <<>> /\ ~ZeroPadded(run)
    /\ \/ Len(run) < Len(U16MaxDecimal)
       \/ Len(run) = Len(U16MaxDecimal) /\ DecimalLeq(run, U16MaxDecimal)

\* The word is a scalar type name, `x` and a numeral.
VectorPattern(word) ==
    /\ DigitRun(word) # <<>>
    /\ ends_with(WithoutDigitRun(word), "x")
    /\ SubSeq(word, 1, Len(WithoutDigitRun(word)) - 1) \in ScalarNames

VectorBase(word) == SubSeq(word, 1, Len(WithoutDigitRun(word)) - 1)

\* The vector type can be built.
Constructible(word) ==
    /\ VectorPattern(word) /\ LaneCount(DigitRun(word))
    /\ by(VectorBase(word), DecimalValue(DigitRun(word))) # Nothing

\* C11: a word gives a Type token only when it is a scalar type name, which
\* gives that scalar type, or a scalar type name, `x` and a lane count of at
\* most 65535 for which the vector can be built, which gives that vector
\* type; in every other case of a type-like word (more than 65535 lanes, an
\* unknown base, a vector that cannot be built) the token is an Identifier
\* that holds the whole word, never an error.
C11_TypeTokens ==
    (Returned /\ is_alphabetic(Source[start + 1])) =>
        LET word == RunFrom(Source, start, WordChars)
            id   == token(BareText("Identifier", word), result.loc)
        IN  /\ result.kind # "InvalidChar"
            /\ result.kind = "Type" => (word \in ScalarNames \/ Constructible(word))
            /\ word \in ScalarNames => result = token(ScalarType(word), result.loc)
            /\ Constructible(word) =>
                  result = token(unwrap(by(VectorBase(word), DecimalValue(DigitRun(word)))),
                                 result.loc)
            /\ (VectorPattern(word) /\ ~Constructible(word)) => result = id
            /\ (ends_with(WithoutDigitRun(word), "x") /\ ~VectorPattern(word)
                  /\ WithoutDigitRun(word) # <<"v", "x">>) => result = id

\* `i32x4`: the vector of four 32-bit integers.
C11_Witness ==
    /\ Returned /\ result.kind = "Type"
    /\ result.text = <<"i", "3", "2">> /\ result.num = <<0, 4>>
    /\ RunFrom(Source, start, WordChars) = <<"i", "3", "2", "x", "4">>

\* C12: when next() finds `;` at the start of a token it returns a Comment
\* whose text is the source from that `;` up to, and excluding, the next
\* newline or the end of input, with the line of the `;`; the newline is not
\* consumed, and the token that follows is on a later line.
C12_CommentToEndOfLine ==
    (Returned /\ Source[start + 1] = ";") =>
        /\ result = token(BareText("Comment", LineFrom(Source, start)), result.loc)
        /\ result.text[1] = ";"
        /\ \A i \in 1..Len(result.text) : result.text[i] # NL
        /\ result.loc = 1 + NewlinesBefore(Source, start)
        /\ Before(lex) = start + Len(result.text)
        /\ lex.lookahead \in {NL, None}
        /\ lex.line_number = result.loc
        /\ next(lex).ret.kind # None => next(lex).ret.loc > result.loc

\* `\n  ;hello\n;foo`: the first comment is scanned and the newline is next.
C12_Witness ==
    /\ Returned /\ result.kind = "Comment" /\ result.loc = 2
    /\ lex.lookahead = NL
    /\ Len(result.text) > 1
    /\ next(lex).ret.kind = "Comment" /\ next(lex).ret.loc = 3

\* C13: when next() finds `-` at the start of a token, it returns Arrow and
\* advances by two characters if `>` follows; otherwise it returns an Integer
\* or a Float whose text begins with that `-`.  It never returns InvalidChar,
\* also when the `-` is the last character of the input.
C13_MinusIsArrowOrNumber ==
    (Returned /\ Source[start + 1] = "-") =>
        IF start + 1 < Len(Source) /\ Source[start + 2] = ">"
        THEN /\ result = token(Bare("Arrow"), result.loc)
             /\ Before(lex) = start + 2
             /\ lex.pos = ByteOffset(Source, start) + 2
        ELSE /\ result.kind \in {"Integer", "Float"}
             /\ result.text # <<>> /\ result.text[1] = "-"
             /\ result.text = SubSeq(Source, start + 1, Before(lex))

\* A `-` at the very end of the input, after an arrow.
C13_Witness ==
    /\ Returned /\ result.kind = "Integer" /\ result.text = <<"-">>
    /\ start + 1 = Len(Source) /\ lex.lookahead = None
    /\ start >= 2 /\ Source[start - 1] = "-" /\ Source[start] = ">"

TokenKinds == {"Comment", "LPar", "RPar", "LBrace", "RBrace", "Comma", "Dot", "Colon",
               "Equal", "Arrow", "Float", "Integer", "Type", "Value", "Ebb",
               "StackSlot", "JumpTable", "FuncRef", "SigRef", "Identifier"}

\* The characters that start a token.
TokenStart == {";", "(", ")", "{", "}", ",", ".", ":", "=", "-"} \cup Digits
              \cup Lower \cup Upper \cup NonAsciiAlpha

\* C14: next() returns an error exactly when the first character after the
\* whitespace is none of `; ( ) { } , . : = -`, no ASCII digit and not
\* alphabetic; the error is InvalidChar; a number or a word always comes
\* back as a token.
C14_ErrorIffInvalidChar ==
    Returned =>
        /\ result.kind \in TokenKinds \cup {"InvalidChar"}
        /\ Source[start + 1] \notin WhiteSpace
        /\ \A i \in (Before(pre) + 1)..start : Source[i] \in WhiteSpace
        /\ result.kind = "InvalidChar" <=> Source[start + 1] \notin TokenStart
        /\ (Source[start + 1] \in Digits \cup {"-"} /\ result.kind # "Arrow") =>
              result.kind \in {"Integer", "Float"}
        /\ is_alphabetic(Source[start + 1]) =>
              result.kind \in {"Identifier", "Type", "Value", "Ebb", "StackSlot",
                               "JumpTable", "FuncRef", "SigRef"}

\* An invalid character after whitespace, and a token before it.
C14_Witness ==
    /\ Returned /\ result.kind = "InvalidChar"
    /\ start >= 2 /\ Source[start] \in WhiteSpace
    /\ ntokens = 2

\* C15: the token or error that next() returns after a call of
\* rest_of_line() is on a line after the line the cursor was on when
\* rest_of_line() was called.
C15_NextTokenOnLaterLine ==
    (op = "rest_of_line" /\ next(lex).ret.kind # None) =>
        /\ next(lex).ret.loc > pre.line_number
        /\ next(lex).ret.loc > 1 + NewlinesBefore(Source, Before(pre))

\* rest_of_line() was called in the middle of a line, and a token follows.
C15_Witness ==
    /\ op = "rest_of_line"
    /\ pre.lookahead \notin {NL, None} /\ Before(pre) > 0
    /\ result.text # <<>>
    /\ next(lex).ret.kind \in TokenKinds
    /\ next(lex).ret.loc = pre.line_number + 1

\* The number of characters that the item just returned covers.
SpanEnd == Before(lex)

PunctuationChar ==
    [k \in {"LPar", "RPar", "LBrace", "RBrace", "Comma", "Dot", "Colon", "Equal"} |->
        CASE k = "LPar" -> "("   [] k = "RPar" -> ")"
          [] k = "LBrace" -> "{" [] k = "RBrace" -> "}"
          [] k = "Comma" -> ","  [] k = "Dot" -> "."
          [] k = "Colon" -> ":"  [] k = "Equal" -> "="]

\* C16: the item that next() returns covers the slice of the source from its
\* first character to the cursor: the text of a Comment, Integer, Float or
\* Identifier, the word of an entity or type, one character for a punctuation
\* mark or an InvalidChar, two for Arrow.  The slice starts at or after the
\* place where the previous call stopped, it is not empty, and the
\* characters between the two, like those in front of the end of input when
\* None is returned, are whitespace.
C16_SpansCoverSource ==
    (op = "next" /\ ~hung /\ ~panicked) =>
        IF result.kind = None
        THEN \A i \in (Before(pre) + 1)..Len(Source) : Source[i] \in WhiteSpace
        ELSE /\ Before(pre) <= start /\ start < SpanEnd /\ SpanEnd <= Len(Source)
             /\ \A i \in (Before(pre) + 1)..start : Source[i] \in WhiteSpace
             /\ result.kind \in {"Comment", "Integer", "Float", "Identifier"} =>
                    result.text = SubSeq(Source, start + 1, SpanEnd)
             /\ result.kind \in DOMAIN PunctuationChar =>
                    /\ SpanEnd = start + 1
                    /\ Source[start + 1] = PunctuationChar[result.kind]
             /\ result.kind = "InvalidChar" => SpanEnd = start + 1
             /\ result.kind = "Arrow" =>
                    SubSeq(Source, start + 1, SpanEnd) = <<"-", ">">>
             /\ result.kind \in {"Type", "Value", "Ebb", "StackSlot", "JumpTable",
                                 "FuncRef", "SigRef"} =>
                    SubSeq(Source, start + 1, SpanEnd) = RunFrom(Source, start, WordChars)

\* The third item of a text lexed with next() alone, after whitespace.
C16_Witness ==
    /\ Returned /\ ntokens = 3
    /\ Before(pre) < start
    /\ SpanEnd > start + 1
    /\ result.kind = "Integer"

\* C17: the line counter is 1 + the number of newlines in front of the
\* cursor, in every state.
C17_LineCounter ==
    (op \in {"new", "next", "rest_of_line"} /\ ~hung /\ ~panicked) =>
        /\ lex.line_number = 1 + NewlinesBefore(Source, Before(lex))
        /\ lex.line_number - pre.line_number
              = NewlinesBefore(Source, Before(lex)) - NewlinesBefore(Source, Before(pre))

\* The cursor is at the end of a text that ends with a newline, after
\* rest_of_line() has stepped over a newline.
C17_Witness ==
    /\ op = "rest_of_line" /\ pre.lookahead = NL
    /\ lex.lookahead = None
    /\ Source[Len(Source)] = NL
    /\ lex.line_number = 3

\* C18: the cursor offset never decreases and never exceeds the length of
\* the source, and a call of next() that returns a token or an error
\* increases it.
C18_CursorMovesForward ==
    [][ /\ lex.pos <= lex'.pos
        /\ lex'.pos <= ByteLen(lex'.source)
        /\ lex'.source = lex.source
        /\ (op' = "next" /\ result'.kind # None) => lex.pos < lex'.pos ]_vars

\* An error was returned for the last character of the source.
C18_Witness ==
    /\ Returned /\ result.kind = "InvalidChar"
    /\ lex.pos = ByteLen(Source) /\ lex.pos = pre.pos + 1
    /\ pre.pos > 0

\* C19: at the end of input next() returns None, rest_of_line() returns the
\* empty text, and neither changes the cursor offset, the lookahead or the
\* line counter.
C19_EndIsAbsorbing ==
    (op \in {"next", "rest_of_line"} /\ pre.lookahead = None) =>
        /\ lex = pre
        /\ lex.lookahead = None
        /\ op = "next" => result = NoToken
        /\ op = "rest_of_line" => result = BareText("Text", <<>>)

\* rest_of_line() was called after the tokens of a text were all returned.
C19_Witness ==
    /\ op = "rest_of_line" /\ pre.lookahead = None
    /\ result.text = <<>>
    /\ ntokens >= 2 /\ lex.line_number >= 2

\* C20: no assertion fails, and the lookahead is None exactly when the cursor
\* offset is the length of the source.
C20_NoAssertionFails ==
    /\ ~panicked
    /\ lex.lookahead = None <=> lex.pos = ByteLen(Source)
    /\ lex.lookahead # None => lex.lookahead = Source[Before(lex) + 1]

\* `->` at the very end of the input: the second step of scan_chars had a
\* lookahead, and the cursor is at the end.
C20_Witness ==
    /\ Returned /\ result.kind = "Arrow"
    /\ lex.lookahead = None /\ lex.pos = ByteLen(Source)
    /\ ntokens >= 2

====
